---- MODULE Spec2Model ----
(***************************************************************************)
(* Model of the day/scene progression engine of psi-gen:                   *)
(*   - EffectCalculator (src/game_architecture.py)                         *)
(*   - DaySceneGame / MainGame progression (src/game_architecture.py,      *)
(*     src/main.py)                                                        *)
(*                                                                         *)
(* Conventions.                                                            *)
(*   - Python lists are sequences; Python indices are 0-based and are kept *)
(*     0-based in the state (current_day_index, current_scene_index,       *)
(*     scene_index); a list l is read at Python index i as l[i + 1].       *)
(*   - A Python dict from effect names to numbers is a function whose      *)
(*     DOMAIN is the set of keys.                                          *)
(*   - Effect values are modelled as integers (the code uses floats).      *)
(*   - A method call that raises is a step that sets raised to the         *)
(*     exception's name and keeps the mutations made before the raise.     *)
(*   - Spec is the controller driven through its methods (on_submit,       *)
(*     next_day) in any order, plus the option toggle of the scene view.   *)
(*   - SpecCalc applies the pure calculator to bounded arbitrary scenes.   *)
(***************************************************************************)
EXTENDS Integers, Sequences, FiniteSets, TLC

VARIABLES
    days,                 \* GameState.days: the content, with the runtime fields
    current_day_index,    \* GameState.current_day_index
    current_scene_index,  \* GameState.current_scene_index
    day_results,          \* GameState.day_results
    current_day_results,  \* MainGame.current_day_results
    current_view,         \* DaySceneGame.current_view
    raised,               \* exception raised by the last call, or "none"
    last_call,            \* the method called by the last step
    submitted,            \* history: the (day, scene) of every record appended
    calc_scene,           \* SpecCalc: the scene handed to the calculator
    calc_result,          \* SpecCalc: what calculate_scene_effects returned
    score_input,          \* SpecScore: the arguments of compare_with_expected
    score_result,         \* SpecScore: what compare_with_expected returned
    save_file,            \* the file save.yaml: absent, or the document in it
    returned,             \* the value the last call returned (load_game's record)
    loader                \* SpecLoader: the DataLoader and the objects it built

vars == <<days, current_day_index, current_scene_index, day_results,
          current_day_results, current_view, raised, last_call, submitted,
          calc_scene, calc_result, score_input, score_result, save_file,
          returned, loader>>

game_vars == <<days, current_day_index, current_scene_index, day_results,
               current_day_results, current_view, raised, last_call,
               submitted>>

calc_vars == <<calc_scene, calc_result, score_input, score_result>>

(***************************************************************************)
(* Bounds of the model.                                                    *)
(***************************************************************************)
MaxDays == 2
MaxScenes == 2
MaxExtraDays == 1
MaxOptions == 2
MaxEffects == 2
MaxExpected == 2

\* SpecLoader: scene entries in days.yaml
MaxLoadScenes == 2

\* the effects SpecCalc's scenes are built from
EffectPool ==
    { [name |-> "gold", value |-> 2], [name |-> "gold", value |-> -1],
      [name |-> "fame", value |-> 2] }

\* the accumulated values and the expected effects SpecScore draws from
ScoreValues == {0, 3, 15}

ExpectedPool ==
    { [name |-> "gold", value |-> 3], [name |-> "gold", value |-> -8],
      [name |-> "fame", value |-> 3] }

(***************************************************************************)
(* Data model.                                                             *)
(***************************************************************************)
Effect(n, v) == [name |-> n, value |-> v]

Option(n, t, effs) == [name |-> n, text |-> t, effects |-> effs, selected |-> FALSE]

SceneOutcome(exp) == [expected |-> exp]

EmptyDict == [n \in {} |-> 0]

\* the dataclass defaults: selected_options = [], calculated_effects = {}
Scene(bg, fg, st, opts, btn, outcome) ==
    [bg_images |-> bg, fg_text |-> fg, stats |-> st, options |-> opts,
     button_text |-> btn, outcome |-> outcome,
     selected_options |-> <<>>, calculated_effects |-> EmptyDict]

Day(t, scs) == [text |-> t, scenes |-> scs]

(***************************************************************************)
(* EffectCalculator.                                                       *)
(***************************************************************************)
Abs(x) == IF x < 0 THEN -x ELSE x

Max(a, b) == IF a > b THEN a ELSE b

\* faulty variant: the selected flag is not consulted
OptionCounts_Always(option) == TRUE

\* faulty variant: the unselected options are counted
OptionCounts_Negated(option) == ~option.selected

\* `if option.selected:` -- the options whose effects are counted
OptionCounts(option) == option.selected

\* faulty variant: the value is stored, not added
AddEffect_Overwrite(effects, effect) ==
    [n \in DOMAIN effects \cup {effect.name} |->
        IF n = effect.name THEN effect.value ELSE effects[n]]

\* the loop body: `if effect.name not in effects: effects[effect.name] = 0`
\* followed by `effects[effect.name] += effect.value`
AddEffect(effects, effect) ==
    LET initialised ==
            IF effect.name \in DOMAIN effects
            THEN effects
            ELSE [n \in DOMAIN effects \cup {effect.name} |->
                    IF n = effect.name THEN 0 ELSE effects[n]]
    IN  [initialised EXCEPT ![effect.name] = @ + effect.value]

RECURSIVE AddOptionEffects(_, _)
\* `for effect in option.effects:` in authoring order
AddOptionEffects(effects, option_effects) ==
    IF option_effects = <<>> THEN effects
    ELSE AddOptionEffects(AddEffect(effects, Head(option_effects)),
                          Tail(option_effects))

RECURSIVE AddOptions(_, _)
\* `for option in scene.options:` in authoring order
AddOptions(effects, options) ==
    IF options = <<>> THEN effects
    ELSE AddOptions(IF OptionCounts(Head(options))
                    THEN AddOptionEffects(effects, Head(options).effects)
                    ELSE effects,
                    Tail(options))

calculate_scene_effects(scene) == AddOptions(EmptyDict, scene.options)

\* faulty variant: no floor at 0
ScoreEntry_NoFloor(calculated, exp_effect) ==
    IF exp_effect.name \in DOMAIN calculated
    THEN 100 - Abs(calculated[exp_effect.name] - exp_effect.value) * 10
    ELSE 0

\* faulty variant: the values are added, not subtracted
ScoreEntry_SignSlip(calculated, exp_effect) ==
    IF exp_effect.name \in DOMAIN calculated
    THEN Max(0, 100 - Abs(calculated[exp_effect.name] + exp_effect.value) * 10)
    ELSE 0

\* one expected entry's contribution to the score
ScoreEntry(calculated, exp_effect) ==
    IF exp_effect.name \in DOMAIN calculated
    THEN Max(0, 100 - Abs(calculated[exp_effect.name] - exp_effect.value) * 10)
    ELSE 0

RECURSIVE ScoreLoop(_, _, _)
\* `for exp_effect in expected:` adding each entry's contribution to score
ScoreLoop(score, calculated, expected) ==
    IF expected = <<>> THEN score
    ELSE ScoreLoop(score + ScoreEntry(calculated, Head(expected)),
                   calculated, Tail(expected))

compare_with_expected(calculated, expected) == ScoreLoop(0, calculated, expected)

RECURSIVE SelectedNames(_)
\* `[opt.name for opt in scene.options if opt.selected]`
SelectedNames(options) ==
    IF options = <<>> THEN <<>>
    ELSE (IF Head(options).selected THEN <<Head(options).name>> ELSE <<>>)
         \o SelectedNames(Tail(options))

(***************************************************************************)
(* DataLoader: the content the game is constructed from.  The YAML files   *)
(* are fixed records; the shape of the days manifest (how many days, how   *)
(* many scenes each) is chosen at construction.                            *)
(***************************************************************************)
\* options.yaml
OptionsYaml ==
    << [name |-> "opt_a", text |-> "A", effects |-> <<Effect("gold", 10)>>],
       [name |-> "opt_b", text |-> "B",
        effects |-> <<Effect("gold", 5), Effect("fame", 1)>>] >>

\* DataLoader.load_options: the catalog keyed by option name
options_cache ==
    [n \in {OptionsYaml[i].name : i \in DOMAIN OptionsYaml} |->
        LET i == CHOOSE j \in DOMAIN OptionsYaml :
                    /\ OptionsYaml[j].name = n
                    /\ \A k \in DOMAIN OptionsYaml :
                          OptionsYaml[k].name = n => k <= j
        IN  Option(n, OptionsYaml[i].text, OptionsYaml[i].effects)]

\* the scene file of scene s of day d (0-based): the opening scene offers
\* two catalog options and one name the catalog does not hold
SceneYaml(d, s) ==
    [bg_images |-> <<"bg.png">>, fg_text |-> "scene", stats |-> EmptyDict,
     options |-> IF d = 0 /\ s = 0
                 THEN <<"opt_a", "opt_ghost", "opt_b">>
                 ELSE <<"opt_b">>,
     button_text |-> "Submit",
     outcome |-> [expected |-> <<Effect("gold", 10)>>]]

RECURSIVE ResolveOptions(_)
\* `for opt_name in data['options']: if opt_name in self.options_cache: ...`
ResolveOptions(names) ==
    IF names = <<>> THEN <<>>
    ELSE (IF Head(names) \in DOMAIN options_cache
          THEN LET opt == options_cache[Head(names)]
               IN  <<Option(opt.name, opt.text, opt.effects)>>
          ELSE <<>>)
         \o ResolveOptions(Tail(names))

load_scene(data) ==
    Scene(data.bg_images, data.fg_text, data.stats, ResolveOptions(data.options),
          data.button_text, SceneOutcome(data.outcome.expected))

\* days.yaml with shape[d] scenes in day d; DataLoader.load_days
load_days(shape) ==
    [d \in 1..Len(shape) |->
        Day("day", [s \in 1..shape[d] |-> load_scene(SceneYaml(d - 1, s - 1))])]

\* the manifests the game can be constructed from: DaySceneGame.__init__
\* ends with load_current_scene(), which raises unless day 0 has a scene
Shapes ==
    { sh \in UNION { [1..n -> 0..MaxScenes] : n \in 1..MaxDays } : sh[1] >= 1 }

(***************************************************************************)
(* DaySceneGame / MainGame.                                                *)
(***************************************************************************)
\* Python's None, as the value of a call that returns nothing
NoValue == [none |-> TRUE]

SceneView(d, s) == [kind |-> "scene", day |-> d, scene |-> s]

DaySummaryView == [kind |-> "summary", day |-> -1, scene |-> -1]

GameCompleteView == [kind |-> "complete", day |-> -1, scene |-> -1]

\* days[d] and days[d].scenes[s] exist (the indices are never negative)
HasDay(d) == d < Len(days)

HasScene(d, s) == HasDay(d) /\ s < Len(days[d + 1].scenes)

get_current_day == days[current_day_index + 1]

get_current_scene == get_current_day.scenes[current_scene_index + 1]

\* faulty variant: the scene index is advanced by two
NextSceneIndex_Skip(i) == i + 2

\* faulty variant: the scene index is not advanced
NextSceneIndex_Stay(i) == i

\* `self.state.current_scene_index += 1`
NextSceneIndex(i) == i + 1

\* faulty variant: `>` in place of `>=`
DayIsOver_Strict(scene_index, day) == scene_index > Len(day.scenes)

\* `if self.state.current_scene_index >= len(self.get_current_day().scenes)`
DayIsOver(scene_index, day) == scene_index >= Len(day.scenes)

\* faulty variant: `<=` in place of `<`
HasNextDay_Inclusive(day_index) == day_index <= Len(days)

\* `if self.state.current_day_index < len(self.state.days)`
HasNextDay(day_index) == day_index < Len(days)

\* faulty variant: an empty entry is stored, as DaySceneGame.next_day does
AppendDayResults_Empty(results, day_result) == Append(results, <<>>)

\* `self.state.day_results.append(self.current_day_results)`
AppendDayResults(results, day_result) == Append(results, day_result)

\* faulty variant: the view is built without reading the scene
load_current_scene_Unchecked(d, s) ==
    /\ current_view' = SceneView(d, s)
    /\ raised' = "none"

\* load_current_scene() at cursor (d, s): the scene view, or IndexError with
\* the view left as it was
load_current_scene(d, s) ==
    IF HasScene(d, s)
    THEN /\ current_view' = SceneView(d, s)
         /\ raised' = "none"
    ELSE /\ raised' = "IndexError"
         /\ UNCHANGED current_view

\* faulty variant: the index is read after the cursor has advanced
SceneResult_AfterAdvance(scene_index, selected, effects, score) ==
    [scene_index |-> scene_index + 1, selected_options |-> selected,
     effects |-> effects, score |-> score]

\* the dict scene_result
SceneResult(scene_index, selected, effects, score) ==
    [scene_index |-> scene_index, selected_options |-> selected,
     effects |-> effects, score |-> score]

\* faulty variant: every scene of the day gets the effects
StoreCalculatedEffects_WholeDay(ds, d, s, effects) ==
    [ds EXCEPT ![d + 1].scenes =
        [k \in DOMAIN @ |-> [@[k] EXCEPT !.calculated_effects = effects]]]

\* `scene.calculated_effects = effects`, scene being days[d].scenes[s]
StoreCalculatedEffects(ds, d, s, effects) ==
    [ds EXCEPT ![d + 1].scenes[s + 1].calculated_effects = effects]

\* MainGame.on_submit
on_submit ==
    /\ last_call' = "on_submit"
    /\ returned' = NoValue
    /\ UNCHANGED <<day_results, current_day_index, calc_vars, save_file, loader>>
    /\ IF ~HasScene(current_day_index, current_scene_index)
       THEN \* get_current_scene() raises before anything is written
            /\ raised' = "IndexError"
            /\ UNCHANGED <<days, current_scene_index, current_day_results,
                           current_view, submitted>>
       ELSE LET scene == get_current_scene
                effects == calculate_scene_effects(scene)
                score == compare_with_expected(effects, scene.outcome.expected)
                scene_result ==
                    SceneResult(current_scene_index, SelectedNames(scene.options),
                                effects, score)
                next_index == NextSceneIndex(current_scene_index)
            IN  /\ days' = StoreCalculatedEffects(days, current_day_index,
                                                  current_scene_index, effects)
                /\ current_day_results' = Append(current_day_results, scene_result)
                /\ submitted' = Append(submitted,
                                       <<current_day_index, current_scene_index>>)
                /\ current_scene_index' = next_index
                /\ IF DayIsOver(next_index, get_current_day)
                   THEN \* show_day_summary()
                        /\ current_view' = DaySummaryView
                        /\ raised' = "none"
                   ELSE load_current_scene(current_day_index, next_index)

\* faulty variant: the new day keeps the records of the old one
NewDayResults_Keep(results) == results

\* `self.current_day_results = []`
NewDayResults(results) == <<>>

\* MainGame.next_day
next_day ==
    /\ current_day_index < Len(days) + MaxExtraDays
    /\ last_call' = "next_day"
    /\ day_results' = AppendDayResults(day_results, current_day_results)
    /\ current_day_results' = NewDayResults(current_day_results)
    /\ current_day_index' = current_day_index + 1
    /\ current_scene_index' = 0
    /\ returned' = NoValue
    /\ UNCHANGED <<days, submitted, calc_vars, save_file, loader>>
    /\ IF HasNextDay(current_day_index + 1)
       THEN load_current_scene(current_day_index + 1, 0)
       ELSE \* show_game_complete()
            /\ current_view' = GameCompleteView
            /\ raised' = "none"

\* SceneView._setup_options: one button per option of the scene on display
option_buttons ==
    IF current_view.kind = "scene"
    THEN 0..(Len(days[current_view.day + 1].scenes[current_view.scene + 1].options) - 1)
    ELSE {}

\* OptionButton.on_mouse_press on option i (0-based) of the scene on display
toggle_option(i) ==
    /\ i \in option_buttons
    /\ days' = [days EXCEPT
          ![current_view.day + 1].scenes[current_view.scene + 1]
              .options[i + 1].selected = ~@]
    /\ last_call' = "toggle_option"
    /\ raised' = "none"
    /\ returned' = NoValue
    /\ UNCHANGED <<current_day_index, current_scene_index, day_results,
                   current_day_results, current_view, submitted, calc_vars,
                   save_file, loader>>

\* SpecCalc's variables while no calculation is under way
NoScene == Scene(<<>>, "", EmptyDict, <<>>, "", SceneOutcome(<<>>))

NotCalculated == [done |-> FALSE, effects |-> EmptyDict]

\* SpecScore's variables while no score is being computed
NoScoreInput == [calculated |-> EmptyDict, expected |-> <<>>]

NotScored == [done |-> FALSE, score |-> 0]

\* save.yaml before anything was saved
NoFile == [exists |-> FALSE, document |-> <<>>]

\* SpecLoader's variable while no loader is at work
NoLoader ==
    [phase |-> "constructed", options |-> <<>>, effects |-> <<>>,
     options_cache |-> EmptyDict, days |-> <<>>, options_data |-> <<>>,
     days_data |-> <<>>]

\* the state of everything outside the calculator, as InitCalc and the other
\* specifications of pure functions leave it
GameAtRest ==
    /\ days = load_days(<<1>>)
    /\ current_day_index = 0
    /\ current_scene_index = 0
    /\ day_results = <<>>
    /\ current_day_results = <<>>
    /\ current_view = SceneView(0, 0)
    /\ raised = "none"
    /\ last_call = "init"
    /\ submitted = <<>>
    /\ save_file = NoFile
    /\ returned = NoValue

\* the state after MainGame(window, data_dir) has returned
Init ==
    /\ \E shape \in Shapes : days = load_days(shape)
    /\ current_day_index = 0
    /\ current_scene_index = 0
    /\ day_results = <<>>
    /\ current_day_results = <<>>
    /\ current_view = SceneView(0, 0)
    /\ raised = "none"
    /\ last_call = "init"
    /\ submitted = <<>>
    /\ calc_scene = NoScene
    /\ calc_result = NotCalculated
    /\ score_input = NoScoreInput
    /\ score_result = NotScored
    /\ save_file = NoFile
    /\ returned = NoValue
    /\ loader = NoLoader

Next ==
    \/ on_submit
    \/ next_day
    \/ \E i \in option_buttons : toggle_option(i)

Spec == Init /\ [][Next]_vars

(***************************************************************************)
(* GameSaveManager.  yaml.dump writes a document: a tree of mappings,      *)
(* sequences and plain scalars, a scalar being its characters;             *)
(* yaml.safe_load builds the value back, resolving each plain scalar by    *)
(* its characters (digits: an int; digits with a point: a float; anything  *)
(* else: a string).                                                        *)
(***************************************************************************)
\* GameState.global_stats: `field(default_factory=dict)`, written nowhere
global_stats == EmptyDict

DigitChars == <<"0", "1", "2", "3", "4", "5", "6", "7", "8", "9">>

IsDigit(c) == \E d \in 0..9 : DigitChars[d + 1] = c

DigitValue(c) == CHOOSE d \in 0..9 : DigitChars[d + 1] = c

RECURSIVE NatChars(_)
\* the decimal digits of a natural number
NatChars(n) ==
    IF n < 10 THEN <<DigitChars[n + 1]>>
    ELSE NatChars(n \div 10) \o <<DigitChars[(n % 10) + 1]>>

\* the representer of int: `-` and the decimal digits
IntChars(n) == IF n < 0 THEN <<"-">> \o NatChars(0 - n) ELSE NatChars(n)

\* the representer of float, for the whole-numbered floats of the model:
\* repr(100.0) is 100.0
FloatChars(x) == IntChars(x) \o <<".", "0">>

ScalarNode(chars) == [kind |-> "scalar", chars |-> chars]

SequenceNode(items) == [kind |-> "seq", items |-> items]

MappingNode(entries) == [kind |-> "map", entries |-> entries]

\* the representer of str: a plain scalar (no name of the model reads as a
\* number)
StrNode(str) == ScalarNode(<<str>>)

IntNode(n) == ScalarNode(IntChars(n))

FloatNode(x) == ScalarNode(FloatChars(x))

\* yaml.dump of a dict from names to numbers
DictNode(dict) == MappingNode([k \in DOMAIN dict |-> IntNode(dict[k])])

\* yaml.dump of a scene result record
SceneResultNode(r) ==
    MappingNode(
        [k \in {"scene_index", "selected_options", "effects", "score"} |->
            CASE k = "scene_index" -> IntNode(r.scene_index)
              [] k = "selected_options" ->
                    SequenceNode([i \in DOMAIN r.selected_options |->
                                    StrNode(r.selected_options[i])])
              [] k = "effects" -> DictNode(r.effects)
              [] k = "score" -> FloatNode(r.score)])

\* yaml.dump of day_results: a list of lists of scene result records
DayResultsNode(results) ==
    SequenceNode([d \in DOMAIN results |->
        SequenceNode([i \in DOMAIN results[d] |-> SceneResultNode(results[d][i])])])

\* faulty variant: the scene index is taken from the day index
SaveData_Slip(day_index, scene_index, stats, results) ==
    [current_day |-> day_index, current_scene |-> day_index,
     global_stats |-> stats, day_results |-> results]

\* GameSaveManager.save_game: the dict save_data
SaveData(day_index, scene_index, stats, results) ==
    [current_day |-> day_index, current_scene |-> scene_index,
     global_stats |-> stats, day_results |-> results]

\* yaml.dump(save_data, f)
yaml_dump(save_data) ==
    MappingNode(
        [k \in {"current_day", "current_scene", "global_stats", "day_results"} |->
            CASE k = "current_day" -> IntNode(save_data.current_day)
              [] k = "current_scene" -> IntNode(save_data.current_scene)
              [] k = "global_stats" -> DictNode(save_data.global_stats)
              [] k = "day_results" -> DayResultsNode(save_data.day_results)])

RECURSIVE DigitsValue(_, _)
\* the number a run of digits denotes, after the digits read so far
DigitsValue(acc, chars) ==
    IF chars = <<>> THEN acc
    ELSE DigitsValue(acc * 10 + DigitValue(Head(chars)), Tail(chars))

AllDigits(chars) == chars # <<>> /\ \A i \in DOMAIN chars : IsDigit(chars[i])

\* the characters after a leading `-`, if any
Unsigned(chars) == IF chars # <<>> /\ Head(chars) = "-" THEN Tail(chars) ELSE chars

LooksLikeInt(chars) == AllDigits(Unsigned(chars))

\* digits, a point, digits
LooksLikeFloat(chars) ==
    \E p \in DOMAIN Unsigned(chars) :
        /\ Unsigned(chars)[p] = "."
        /\ AllDigits(SubSeq(Unsigned(chars), 1, p - 1))
        /\ AllDigits(SubSeq(Unsigned(chars), p + 1, Len(Unsigned(chars))))

Signed(chars, n) == IF chars # <<>> /\ Head(chars) = "-" THEN 0 - n ELSE n

\* the resolver and constructor of a plain scalar
ResolveScalar(chars) ==
    IF LooksLikeInt(chars)
    THEN Signed(chars, DigitsValue(0, Unsigned(chars)))
    ELSE IF LooksLikeFloat(chars)
    THEN LET u == Unsigned(chars)
             p == CHOOSE q \in DOMAIN u : u[q] = "."
         IN  \* the fraction of a whole-numbered float is 0
             Signed(chars, DigitsValue(0, SubSeq(u, 1, p - 1)))
    ELSE chars[1]

RECURSIVE Construct(_)
\* yaml.safe_load: the Python value of a node
Construct(node) ==
    CASE node.kind = "map" ->
            [k \in DOMAIN node.entries |-> Construct(node.entries[k])]
      [] node.kind = "seq" ->
            [i \in DOMAIN node.items |-> Construct(node.items[i])]
      [] node.kind = "scalar" -> ResolveScalar(node.chars)

yaml_safe_load(document) == Construct(document)

\* faulty variant: the save first moves the in-progress records into
\* day_results
save_game_Flush ==
    /\ last_call' = "save_game"
    /\ returned' = NoValue
    /\ raised' = "none"
    /\ day_results' = Append(day_results, current_day_results)
    /\ current_day_results' = <<>>
    /\ save_file' =
          [exists |-> TRUE,
           document |-> yaml_dump(SaveData(current_day_index, current_scene_index,
                                           global_stats, day_results'))]
    /\ UNCHANGED <<days, current_day_index, current_scene_index, current_view,
                   submitted, calc_vars, loader>>

\* DaySceneGame.save_game -> GameSaveManager.save_game(self.state, "save.yaml");
\* open(filepath, 'w') can fail, and then nothing is written
save_game ==
    /\ last_call' = "save_game"
    /\ returned' = NoValue
    /\ \E writable \in BOOLEAN :
          IF writable
          THEN /\ save_file' =
                    [exists |-> TRUE,
                     document |-> yaml_dump(SaveData(current_day_index,
                                                     current_scene_index,
                                                     global_stats, day_results))]
               /\ raised' = "none"
          ELSE /\ raised' = "OSError"
               /\ UNCHANGED save_file
    /\ UNCHANGED <<days, current_day_index, current_scene_index, day_results,
                   current_day_results, current_view, submitted, calc_vars,
                   loader>>

\* GameSaveManager.load_game("save.yaml")
load_game ==
    /\ last_call' = "load_game"
    /\ IF save_file.exists
       THEN /\ returned' = yaml_safe_load(save_file.document)
            /\ raised' = "none"
       ELSE /\ returned' = NoValue
            /\ raised' = "FileNotFoundError"
    /\ UNCHANGED <<days, current_day_index, current_scene_index, day_results,
                   current_day_results, current_view, submitted, calc_vars,
                   save_file, loader>>

NextSave ==
    \/ on_submit
    \/ next_day
    \/ \E i \in option_buttons : toggle_option(i)
    \/ save_game
    \/ load_game

\* the manifest of the saved game: a day of two scenes, then a day of one
SaveShape == <<2, 1>>

\* MainGame constructed from that manifest, no save file yet
InitSave ==
    /\ days = load_days(SaveShape)
    /\ current_day_index = 0
    /\ current_scene_index = 0
    /\ day_results = <<>>
    /\ current_day_results = <<>>
    /\ current_view = SceneView(0, 0)
    /\ raised = "none"
    /\ last_call = "init"
    /\ submitted = <<>>
    /\ save_file = NoFile
    /\ returned = NoValue
    /\ calc_scene = NoScene
    /\ calc_result = NotCalculated
    /\ score_input = NoScoreInput
    /\ score_result = NotScored
    /\ loader = NoLoader

\* MainGame with its save file: the methods in any order
SpecSave == InitSave /\ [][NextSave]_vars

(***************************************************************************)
(* SpecUI: the player.  Every step is one mouse press, handled by the      *)
(* window's on_mouse_press, which asks the current view and calls the      *)
(* method the view's answer names.  A click is given by what lies under    *)
(* it: an option button, the submit button, the save or the continue       *)
(* button, or nothing; the buttons of one view do not overlap for the      *)
(* scenes of the model.                                                    *)
(***************************************************************************)
Clicks ==
    { [target |-> t, index |-> -1] : t \in {"submit", "save", "continue", "elsewhere"} }
        \cup { [target |-> "option", index |-> i] : i \in 0..(MaxOptions - 1) }

\* what a view's on_mouse_press did and returned
ViewAnswer(toggled, result) == [toggled |-> toggled, result |-> result]

\* SceneView.on_mouse_press: the first option button hit toggles and ends the
\* call; otherwise 'submit' for the submit button
SceneView_on_mouse_press(click) ==
    IF click.target = "option" /\ click.index \in option_buttons
    THEN ViewAnswer(click.index, "None")
    ELSE IF click.target = "submit" THEN ViewAnswer(-1, "submit")
    ELSE ViewAnswer(-1, "None")

\* faulty variant: the continue button answers 'submit'
DaySummaryView_on_mouse_press_Submit(click) ==
    IF click.target = "save" THEN ViewAnswer(-1, "save")
    ELSE IF click.target = "continue" THEN ViewAnswer(-1, "submit")
    ELSE ViewAnswer(-1, "None")

\* DaySummaryView.on_mouse_press
DaySummaryView_on_mouse_press(click) ==
    IF click.target = "save" THEN ViewAnswer(-1, "save")
    ELSE IF click.target = "continue" THEN ViewAnswer(-1, "continue")
    ELSE ViewAnswer(-1, "None")

\* `hasattr(self.current_view, 'on_mouse_press')`: GameCompleteView has none
HasMousePress(view) == view.kind \in {"scene", "summary"}

\* a press that calls no method of the game
no_command ==
    /\ last_call' = "on_mouse_press"
    /\ raised' = "none"
    /\ returned' = NoValue
    /\ UNCHANGED <<days, current_day_index, current_scene_index, day_results,
                   current_day_results, current_view, submitted, calc_vars,
                   save_file, loader>>

\* the window's on_mouse_press
window_on_mouse_press(click) ==
    IF ~HasMousePress(current_view) THEN no_command
    ELSE LET answer == IF current_view.kind = "scene"
                       THEN SceneView_on_mouse_press(click)
                       ELSE DaySummaryView_on_mouse_press(click)
         IN  IF answer.toggled >= 0 THEN toggle_option(answer.toggled)
             ELSE IF answer.result = "submit" THEN on_submit
             ELSE IF answer.result = "save" THEN save_game
             ELSE IF answer.result = "continue" THEN next_day
             ELSE no_command

NextUI == \E click \in Clicks : window_on_mouse_press(click)

\* MainGame driven by the mouse only
SpecUI == Init /\ [][NextUI]_vars

(***************************************************************************)
(* SpecPlay: the player under fairness.  main() runs pyglet.app.run() with  *)
(* no exception handling and the mouse handler catches nothing, so an       *)
(* exception of a called method leaves the handler.  Whether the event loop *)
(* survives that is not decided by the source: where the handler is         *)
(* dispatched from Python the exception ends app.run() and with it main(),  *)
(* where it is dispatched from a foreign callback it is reported and the    *)
(* loop goes on.  Both outcomes are behaviours of SpecPlay.                 *)
(***************************************************************************)
SubmitClick == [target |-> "submit", index |-> -1]

ContinueClick == [target |-> "continue", index |-> -1]

\* pyglet.app.run() has not returned
Running == last_call # "exit"

\* the exception of the last call leaves app.run() and main() ends
event_loop_exit ==
    /\ Running
    /\ raised # "none"
    /\ last_call' = "exit"
    /\ UNCHANGED <<days, current_day_index, current_scene_index, day_results,
                   current_day_results, current_view, raised, submitted,
                   calc_vars, save_file, returned, loader>>

\* one mouse press while the event loop runs
player_press(click) == Running /\ window_on_mouse_press(click)

\* the player's commands: Submit in a scene view, Continue in the summary
player_submit ==
    /\ current_view.kind = "scene"
    /\ player_press(SubmitClick)

player_continue ==
    /\ current_view.kind = "summary"
    /\ player_press(ContinueClick)

NextPlay ==
    \/ \E click \in Clicks : player_press(click)
    \/ event_loop_exit

\* a command of the player that stays enabled is eventually taken
SpecPlay ==
    /\ Init
    /\ [][NextPlay]_vars
    /\ WF_vars(player_submit)
    /\ WF_vars(player_continue)

(***************************************************************************)
(* SpecCalc: EffectCalculator.calculate_scene_effects applied to every     *)
(* scene of at most MaxOptions options with at most MaxEffects effects     *)
(* each, drawn from EffectPool, selected or not.                           *)
(***************************************************************************)
SeqsUpTo(S, n) == UNION { [1..k -> S] : k \in 0..n }

CalcOptions ==
    { [name |-> "opt", text |-> "opt", effects |-> effs, selected |-> sel] :
        effs \in SeqsUpTo(EffectPool, MaxEffects), sel \in BOOLEAN }

CalcScenes ==
    { Scene(<<>>, "", EmptyDict, opts, "", SceneOutcome(<<>>)) :
        opts \in SeqsUpTo(CalcOptions, MaxOptions) }

InitCalc ==
    /\ GameAtRest
    /\ loader = NoLoader
    /\ calc_scene \in CalcScenes
    /\ calc_result = NotCalculated
    /\ score_input = NoScoreInput
    /\ score_result = NotScored

\* effects = EffectCalculator.calculate_scene_effects(calc_scene)
calculate ==
    /\ ~calc_result.done
    /\ calc_result' = [done |-> TRUE, effects |-> calculate_scene_effects(calc_scene)]
    /\ UNCHANGED <<game_vars, calc_scene, score_input, score_result,
                   save_file, returned, loader>>

NextCalc == calculate

SpecCalc == InitCalc /\ [][NextCalc]_vars

(***************************************************************************)
(* SpecScore: EffectCalculator.compare_with_expected applied to every      *)
(* mapping from effect names to ScoreValues and every expected list of at  *)
(* most MaxExpected effects from ExpectedPool.                             *)
(***************************************************************************)
ScoreNames == { e.name : e \in ExpectedPool }

ScoreDicts == UNION { [keys -> ScoreValues] : keys \in SUBSET ScoreNames }

ScoreInputs ==
    { [calculated |-> c, expected |-> e] :
        c \in ScoreDicts, e \in SeqsUpTo(ExpectedPool, MaxExpected) }

InitScore ==
    /\ GameAtRest
    /\ loader = NoLoader
    /\ calc_scene = NoScene
    /\ calc_result = NotCalculated
    /\ score_input \in ScoreInputs
    /\ score_result = NotScored

\* score = EffectCalculator.compare_with_expected(calculated, expected)
compare ==
    /\ ~score_result.done
    /\ score_result' =
          [done |-> TRUE,
           score |-> compare_with_expected(score_input.calculated,
                                           score_input.expected)]
    /\ UNCHANGED <<game_vars, calc_scene, calc_result, score_input, save_file,
                   returned, loader>>

NextScore == compare

SpecScore == InitScore /\ [][NextScore]_vars

(***************************************************************************)
(* SpecLoader: DataLoader with its objects on a heap.  loader.options and  *)
(* loader.effects hold the Option and Effect objects ever constructed, an  *)
(* object's identity being its position; options_cache maps a name to the  *)
(* identity of the catalog's Option, a list of effects or of options holds *)
(* identities.  days.yaml is chosen when load_days is called; a scene      *)
(* entry is a descriptor or a {file: name} reference.                      *)
(***************************************************************************)
\* a complete scene descriptor referencing the options refs
SceneDescriptor(refs) ==
    [bg_images |-> <<"bg.png">>, fg_text |-> "scene", stats |-> [mood |-> 1],
     options |-> refs, button_text |-> "Submit",
     outcome |-> [expected |-> <<Effect("gold", 10)>>]]

\* a YAML mapping without the key k
Without(mapping, k) == [x \in DOMAIN mapping \ {k} |-> mapping[x]]

\* the scene files of the data directory: one with a reference the catalog
\* does not hold, one without stats, one without fg_text
SceneFiles ==
    [f \in {"scene_1.yaml", "scene_2.yaml", "scene_3.yaml"} |->
        CASE f = "scene_1.yaml" ->
                SceneDescriptor(<<"opt_a", "opt_ghost", "opt_b">>)
          [] f = "scene_2.yaml" ->
                Without(SceneDescriptor(<<"opt_ghost">>), "stats")
          [] f = "scene_3.yaml" ->
                Without(SceneDescriptor(<<"opt_a">>), "fg_text")]

\* what a `scenes:` list of days.yaml can hold: the descriptors of the files
\* written inline, a descriptor naming one option twice, and the references
SceneEntries ==
    { SceneFiles[f] : f \in DOMAIN SceneFiles }
        \cup { SceneDescriptor(<<"opt_b", "opt_b">>) }
        \cup { [file |-> f] : f \in DOMAIN SceneFiles }

\* days.yaml: at most MaxLoadScenes scene entries, in one day or cut in two
DaysYaml(entries, cut) ==
    IF cut = 0
    THEN << [text |-> "day", scenes |-> entries] >>
    ELSE << [text |-> "day", scenes |-> SubSeq(entries, 1, cut)],
            [text |-> "day", scenes |-> SubSeq(entries, cut + 1, Len(entries))] >>

Manifests ==
    { DaysYaml(entries, cut) :
        <<entries, cut>> \in
            { ec \in SeqsUpTo(SceneEntries, MaxLoadScenes) \X (0..MaxLoadScenes) :
                ec[2] <= Len(ec[1]) } }

\* `Effect(**e)`: the dataclass takes name and value, both without default
EffectArgsOk(e) == DOMAIN e = {"name", "value"}

\* options.yaml with an effect that has no value in its second option
OptionsYamlNoValue ==
    << OptionsYaml[1],
       [name |-> "opt_b", text |-> "B", effects |-> <<[name |-> "gold"]>>] >>

\* the options.yaml files a data directory can hold
OptionsFiles == {OptionsYaml, OptionsYamlNoValue}

RECURSIVE LoadOptions(_, _)
\* DataLoader.load_options: each entry of options.yaml becomes a new Option
\* holding new Effect objects, and the cache entry of its name; an effect
\* without value raises TypeError, the cache keeping the entries made so far
LoadOptions(l, data) ==
    IF data = <<>> THEN [loader |-> l, raised |-> "none"]
    ELSE LET option_data == Head(data)
             effect_ids == [i \in 1..Len(option_data.effects) |->
                                Len(l.effects) + i]
             option == Option(option_data.name, option_data.text, effect_ids)
         IN  IF \E i \in DOMAIN option_data.effects :
                    ~EffectArgsOk(option_data.effects[i])
             THEN [loader |-> l, raised |-> "TypeError"]
             ELSE LoadOptions(
                     [l EXCEPT !.effects = @ \o option_data.effects,
                               !.options = Append(@, option),
                               !.options_cache =
                                   (option_data.name :> (Len(l.options) + 1)) @@ @],
                     Tail(data))

\* faulty variant: the catalog's own Option is attached
AttachOption_Shared(l, opt_id) == [loader |-> l, id |-> opt_id]

\* `Option(name=opt.name, text=opt.text, effects=opt.effects.copy())`: a new
\* Option, selected = False, whose new list holds the Effect objects of
\* opt.effects
AttachOption(l, opt_id) ==
    LET opt == l.options[opt_id]
    IN  [loader |-> [l EXCEPT !.options =
                        Append(@, Option(opt.name, opt.text, opt.effects))],
         id |-> Len(l.options) + 1]

\* faulty variant: the new option is put in front
options_append_Front(options, id) == <<id>> \o options

\* `options.append(...)`
options_append(options, id) == Append(options, id)

RECURSIVE SceneOptions(_, _, _)
\* `for opt_name in scene_yaml['options']: if opt_name in self.options_cache:`
SceneOptions(l, names, options) ==
    IF names = <<>> THEN [loader |-> l, options |-> options]
    ELSE IF Head(names) \in DOMAIN l.options_cache
    THEN LET a == AttachOption(l, l.options_cache[Head(names)])
         IN  SceneOptions(a.loader, Tail(names), options_append(options, a.id))
    ELSE SceneOptions(l, Tail(names), options)

\* the keys get_scene reads with scene_yaml[...]; stats is read with .get
RequiredKeys == {"options", "outcome", "bg_images", "fg_text", "button_text"}

\* DataLoader.get_scene: the Scene of a descriptor, or KeyError; the options
\* built before a KeyError are garbage
get_scene(l, scene_yaml) ==
    IF ~(RequiredKeys \subseteq DOMAIN scene_yaml)
    THEN [loader |-> l, scene |-> NoScene, raised |-> "KeyError"]
    ELSE IF \E i \in DOMAIN scene_yaml.outcome.expected :
                ~EffectArgsOk(scene_yaml.outcome.expected[i])
    THEN [loader |-> l, scene |-> NoScene, raised |-> "TypeError"]
    ELSE LET r == SceneOptions(l, scene_yaml.options, <<>>)
         IN  [loader |-> r.loader,
              scene |-> Scene(scene_yaml.bg_images, scene_yaml.fg_text,
                              IF "stats" \in DOMAIN scene_yaml
                              THEN scene_yaml.stats ELSE EmptyDict,
                              r.options, scene_yaml.button_text,
                              SceneOutcome(scene_yaml.outcome.expected)),
              raised |-> "none"]

\* DataLoader.get_scene_from_file
get_scene_from_file(l, scene_file) == get_scene(l, SceneFiles[scene_file])

\* faulty variant: every entry is taken for a descriptor
IsFileReference_Never(scene_data) == FALSE

\* `'file' in scene_data.keys()`
IsFileReference(scene_data) == "file" \in DOMAIN scene_data

\* faulty variant: the exception of a call is swallowed
Raises_Never(r) == FALSE

\* an exception of a call inside a loop leaves the loop and the method
Raises(r) == r.raised # "none"

RECURSIVE LoadScenes(_, _, _)
\* `for scene_data in day_data['scenes']:`
LoadScenes(l, entries, scenes) ==
    IF entries = <<>> THEN [loader |-> l, scenes |-> scenes, raised |-> "none"]
    ELSE LET r == IF IsFileReference(Head(entries))
                  THEN get_scene_from_file(l, Head(entries).file)
                  ELSE get_scene(l, Head(entries))
         IN  IF Raises(r)
             THEN [loader |-> l, scenes |-> <<>>, raised |-> r.raised]
             ELSE LoadScenes(r.loader, Tail(entries), Append(scenes, r.scene))

RECURSIVE LoadDays(_, _, _)
\* `for day_data in days_data:`
LoadDays(l, days_data, loaded) ==
    IF days_data = <<>> THEN [loader |-> l, days |-> loaded, raised |-> "none"]
    ELSE LET r == LoadScenes(l, Head(days_data).scenes, <<>>)
         IN  IF Raises(r)
             THEN [loader |-> l, days |-> <<>>, raised |-> r.raised]
             ELSE LoadDays(r.loader, Tail(days_data),
                           Append(loaded, Day(Head(days_data).text, r.scenes)))

\* DataLoader.load_options, the first load of DaySceneGame.__init__ that the
\* scenes depend on
DataLoader_load_options ==
    /\ loader.phase = "constructed"
    /\ \E data \in OptionsFiles :
          LET r == LoadOptions(loader, data)
          IN  /\ loader' = [r.loader EXCEPT
                                !.phase = IF Raises(r) THEN "failed"
                                          ELSE "options_loaded",
                                !.options_data = data]
              /\ raised' = r.raised
    /\ last_call' = "load_options"
    /\ UNCHANGED <<days, current_day_index, current_scene_index, day_results,
                   current_day_results, current_view, submitted, calc_vars,
                   save_file, returned>>

\* DataLoader.load_days on the days.yaml chosen; a KeyError leaves the loader
\* with its catalog and no days
DataLoader_load_days ==
    /\ loader.phase = "options_loaded"
    /\ \E days_data \in Manifests :
          LET r == LoadDays(loader, days_data, <<>>)
          IN  IF r.raised = "none"
              THEN /\ loader' = [r.loader EXCEPT !.phase = "days_loaded",
                                                 !.days = r.days,
                                                 !.days_data = days_data]
                   /\ raised' = "none"
              ELSE /\ loader' = [loader EXCEPT !.phase = "failed",
                                               !.days_data = days_data]
                   /\ raised' = r.raised
    /\ last_call' = "load_days"
    /\ UNCHANGED <<days, current_day_index, current_scene_index, day_results,
                   current_day_results, current_view, submitted, calc_vars,
                   save_file, returned>>

\* the (day, scene, option) positions of the loaded content, 1-based
OptionPositions ==
    UNION { UNION { { <<d, s, k>> :
                        k \in DOMAIN loader.days[d].scenes[s].options } :
                    s \in DOMAIN loader.days[d].scenes } :
            d \in DOMAIN loader.days }

\* OptionButton.on_mouse_press on the button of the option at position p:
\* `self.option.selected = not self.option.selected`
OptionButton_on_mouse_press(p) ==
    /\ loader.phase = "days_loaded"
    /\ p \in OptionPositions
    /\ loader' = [loader EXCEPT
          !.options[loader.days[p[1]].scenes[p[2]].options[p[3]]].selected = ~@]
    /\ last_call' = "OptionButton.on_mouse_press"
    /\ raised' = "none"
    /\ UNCHANGED <<days, current_day_index, current_scene_index, day_results,
                   current_day_results, current_view, submitted, calc_vars,
                   save_file, returned>>

\* an Option by value: its Effect objects read from the heap
OptionValue(l, id) ==
    [name |-> l.options[id].name, text |-> l.options[id].text,
     effects |-> [i \in DOMAIN l.options[id].effects |->
                    l.effects[l.options[id].effects[i]]],
     selected |-> l.options[id].selected]

\* loaded days by value
DaysValue(l, loaded) ==
    [d \in DOMAIN loaded |->
        [text |-> loaded[d].text,
         scenes |-> [s \in DOMAIN loaded[d].scenes |->
            [loaded[d].scenes[s] EXCEPT
                !.options = [k \in DOMAIN @ |-> OptionValue(l, @[k])]]]]]

InitLoader ==
    /\ GameAtRest
    /\ calc_scene = NoScene
    /\ calc_result = NotCalculated
    /\ score_input = NoScoreInput
    /\ score_result = NotScored
    /\ loader = NoLoader

NextLoader ==
    \/ DataLoader_load_options
    \/ DataLoader_load_days
    \/ \E p \in OptionPositions : OptionButton_on_mouse_press(p)

SpecLoader == InitLoader /\ [][NextLoader]_vars

(***************************************************************************)
(* SpecStartup: main() constructing the game.  MainGame.__init__ runs      *)
(* DaySceneGame.__init__ (the catalog, the days, the first scene view) on  *)
(* the options.yaml and days.yaml of the data directory; an exception of   *)
(* any step leaves the constructor and main(), and no game exists.         *)
(***************************************************************************)
\* `self.current_view` before a view was made
NoView == [kind |-> "none", day |-> -1, scene |-> -1]

\* faulty variant: the scene index starts at 1
GameState_SecondScene ==
    [current_day_index |-> 0, current_scene_index |-> 1, day_results |-> <<>>]

\* GameState(): the dataclass defaults
GameState ==
    [current_day_index |-> 0, current_scene_index |-> 0, day_results |-> <<>>]

\* ds[d].scenes[s] exists: the two subscripts of load_current_scene
SceneExists(ds, d, s) == d < Len(ds) /\ s < Len(ds[d + 1].scenes)

\* the constructor raised: the loader keeps what it held, nothing else is
\* set; options_data and days_data record the files of the data directory
ConstructionFails(l, error, options_data, days_data) ==
    /\ loader' = [l EXCEPT !.phase = "failed", !.options_data = options_data,
                           !.days_data = days_data]
    /\ raised' = error
    /\ UNCHANGED <<days, current_day_index, current_scene_index, day_results,
                   current_day_results, current_view>>

\* MainGame.__init__: load_options, load_days, GameState, load_current_scene,
\* then the in-progress list
MainGame_init ==
    /\ loader.phase = "constructed"
    /\ last_call' = "init"
    /\ \E options_data \in OptionsFiles, days_data \in Manifests :
          LET o == LoadOptions(loader, options_data)
              d == LoadDays(o.loader, days_data, <<>>)
              loaded == DaysValue(d.loader, d.days)
          IN  IF Raises(o)
              THEN ConstructionFails(o.loader, o.raised, options_data, days_data)
              ELSE IF Raises(d)
              THEN ConstructionFails(o.loader, d.raised, options_data, days_data)
              ELSE IF ~SceneExists(loaded, GameState.current_day_index,
                                   GameState.current_scene_index)
              THEN ConstructionFails(d.loader, "IndexError", options_data,
                                     days_data)
              ELSE /\ loader' = [d.loader EXCEPT !.phase = "running",
                                                 !.days = d.days,
                                                 !.options_data = options_data,
                                                 !.days_data = days_data]
                   /\ days' = loaded
                   /\ current_day_index' = GameState.current_day_index
                   /\ current_scene_index' = GameState.current_scene_index
                   /\ day_results' = GameState.day_results
                   /\ current_view' = SceneView(GameState.current_day_index,
                                                GameState.current_scene_index)
                   /\ current_day_results' = <<>>
                   /\ raised' = "none"
    /\ UNCHANGED <<submitted, calc_vars, save_file, returned>>

\* main() before `game = MainGame(window, "game_data")`
InitStartup ==
    /\ days = <<>>
    /\ current_day_index = 0
    /\ current_scene_index = 0
    /\ day_results = <<>>
    /\ current_day_results = <<>>
    /\ current_view = NoView
    /\ raised = "none"
    /\ last_call = "main"
    /\ submitted = <<>>
    /\ calc_scene = NoScene
    /\ calc_result = NotCalculated
    /\ score_input = NoScoreInput
    /\ score_result = NotScored
    /\ save_file = NoFile
    /\ returned = NoValue
    /\ loader = NoLoader

NextStartup == MainGame_init

SpecStartup == InitStartup /\ [][NextStartup]_vars

(***************************************************************************)
(* Machine states of the progression (spec 4.3), read off the controller.  *)
(***************************************************************************)
\* InScene(current_day_index, current_scene_index): the scene at the cursor
\* is on display
InScene ==
    current_view = SceneView(current_day_index, current_scene_index)

\* DaySummary(current_day_index)
InDaySummary == current_view.kind = "summary"

\* Complete
IsComplete == current_view.kind = "complete"

cursor == <<current_day_index, current_scene_index>>

progress == <<current_day_index, current_scene_index, current_day_results,
              day_results>>

\* the record on_submit builds for scene (d, s) from the scene as it is now
ResultOf(d, s) ==
    LET scene == days[d + 1].scenes[s + 1]
        effects == calculate_scene_effects(scene)
    IN  [scene_index |-> s,
         selected_options |-> SelectedNames(scene.options),
         effects |-> effects,
         score |-> compare_with_expected(effects, scene.outcome.expected)]

\* every scene of the content in playing order
RECURSIVE ScenesFrom(_)
ScenesFrom(d) ==
    IF d >= Len(days) THEN <<>>
    ELSE [s \in 1..Len(days[d + 1].scenes) |-> <<d, s - 1>>] \o ScenesFrom(d + 1)

AllScenes == ScenesFrom(0)

IsPrefix(s, t) == Len(s) <= Len(t) /\ \A i \in 1..Len(s) : s[i] = t[i]

LexLeq(a, b) == a[1] < b[1] \/ (a[1] = b[1] /\ a[2] <= b[2])

RECURSIVE SumLens(_)
SumLens(lists) ==
    IF lists = <<>> THEN 0 ELSE Len(Head(lists)) + SumLens(Tail(lists))

\* how many scene result records exist
RecordCount == SumLens(day_results) + Len(current_day_results)

(***************************************************************************)
(* Claims.                                                                 *)
(***************************************************************************)

\* C1: on_submit in InScene(d, s) with s the last scene index of day d makes
\* the day-summary view current (DaySummary(d)); no scene view is loaded, the
\* day index stays d and the call does not raise.
C1_SubmitLastSceneShowsSummary ==
    [][ ( /\ InScene
          /\ current_scene_index = Len(get_current_day.scenes) - 1
          /\ last_call' = "on_submit" )
        => ( /\ current_view' = DaySummaryView
             /\ current_day_index' = current_day_index
             /\ current_scene_index' = Len(get_current_day.scenes)
             /\ raised' = "none" ) ]_vars

\* C1 witness: a submit of a day's last scene has shown the day summary
C1_Witness ==
    /\ last_call = "on_submit"
    /\ InDaySummary
    /\ raised = "none"
    /\ current_scene_index = Len(get_current_day.scenes)

C3_CompleteIsTerminal ==
    [][ IsComplete => UNCHANGED progress ]_vars

\* C4: in DaySummary of a day with n scenes the in-progress list holds exactly
\* the n records of scenes 0..n-1 in that order; next_day then appends that
\* list as the new last element of day_results and empties the in-progress
\* list.
C4_DayResultsMoved ==
    [][ (InDaySummary /\ last_call' = "next_day")
        => ( /\ HasDay(current_day_index)
             /\ Len(current_day_results) = Len(get_current_day.scenes)
             /\ \A k \in 1..Len(current_day_results) :
                   current_day_results[k] = ResultOf(current_day_index, k - 1)
             /\ day_results' = Append(day_results, current_day_results)
             /\ Len(day_results') = Len(day_results) + 1
             /\ current_day_results' = <<>> ) ]_vars

\* C4 witness: the two records of a two-scene day 0 are element 0 of
\* day_results after next_day
C4_Witness ==
    /\ last_call = "next_day"
    /\ Len(days[1].scenes) = 2
    /\ Len(day_results) = 1
    /\ Len(day_results[1]) = 2
    /\ day_results[1][1].scene_index = 0
    /\ day_results[1][2].scene_index = 1
    /\ current_day_results = <<>>

\* C5 as stated: a call that raises leaves the cursor, the in-progress list
\* and day_results as they were before the call.
C5_RaisingCallsMutateNothing ==
    [][ raised' # "none" => UNCHANGED progress ]_vars

\* C6: on_submit in DaySummary(d) raises, appends no record and does not move
\* the cursor; and no (day, scene) pair ever has more than one record.
C6_NoResubmission ==
    /\ [][ (InDaySummary /\ last_call' = "on_submit")
           => (raised' # "none" /\ UNCHANGED progress /\ UNCHANGED submitted) ]_vars
    /\ []( /\ Len(submitted) = RecordCount
           /\ \A i, j \in 1..Len(submitted) :
                 submitted[i] = submitted[j] => i = j )

\* C6 witness: a submit was attempted in the day summary and raised, with the
\* day's records in place
C6_Witness ==
    /\ InDaySummary
    /\ last_call = "on_submit"
    /\ raised = "IndexError"
    /\ Len(current_day_results) = 2

\* C7 as stated: next_day called in InScene(d, s) changes neither the cursor
\* nor the in-progress list nor day_results.
C7_NextDayOnlyInSummary ==
    [][ (InScene /\ last_call' = "next_day") => UNCHANGED progress ]_vars

\* C8 as stated: the cursor never decreases lexicographically, and the scenes
\* that received records are, in order, an initial part of the scenes of day
\* 0, then day 1, and so on, none skipped and none revisited.
C8_ScenesInOrder ==
    /\ [][ LexLeq(cursor, cursor') ]_vars
    /\ [] IsPrefix(submitted, AllScenes)

\* C9 as stated: day_results has one element per completed day: its length is
\* the number of days left behind with all their scenes submitted, and element
\* k is the list of the records of the scenes of day k.
C9_OneEntryPerCompletedDay ==
    /\ Len(day_results) =
          Cardinality({ d \in 0..(Len(days) - 1) :
                          /\ d < current_day_index
                          /\ \A s \in 0..(Len(days[d + 1].scenes) - 1) :
                                \E i \in 1..Len(submitted) : submitted[i] = <<d, s>> })
    /\ \A k \in 1..Len(day_results) :
          /\ k <= Len(days)
          /\ Len(day_results[k]) = Len(days[k].scenes)
          /\ \A j \in 1..Len(day_results[k]) :
                day_results[k][j] = ResultOf(k - 1, j - 1)

\* the (option, effect) positions of a scene that belong to selected options
SelectedSlots(scene) ==
    UNION { { <<i, j>> : j \in 1..Len(scene.options[i].effects) } :
              i \in { k \in 1..Len(scene.options) : scene.options[k].selected } }

RECURSIVE SumSlots(_, _)
SumSlots(scene, slots) ==
    IF slots = {} THEN 0
    ELSE LET sl == CHOOSE x \in slots : TRUE
         IN  scene.options[sl[1]].effects[sl[2]].value
             + SumSlots(scene, slots \ {sl})

SlotName(scene, sl) == scene.options[sl[1]].effects[sl[2]].name

\* C10: calculate_scene_effects returns the mapping whose keys are exactly the
\* effect names occurring in selected options and whose value for a name is
\* the sum of the values of all effects of that name in selected options.
C10_AccumulateIsSumOverSelected ==
    calc_result.done =>
        /\ DOMAIN calc_result.effects =
              { SlotName(calc_scene, sl) : sl \in SelectedSlots(calc_scene) }
        /\ \A n \in DOMAIN calc_result.effects :
              calc_result.effects[n] =
                 SumSlots(calc_scene,
                          { sl \in SelectedSlots(calc_scene) :
                              SlotName(calc_scene, sl) = n })

\* C10 witness: a name repeated within a selected option was summed, and an
\* unselected option carrying the same name added nothing
C10_Witness ==
    /\ calc_result.done
    /\ Len(calc_scene.options) = 2
    /\ calc_scene.options[1].selected
    /\ ~calc_scene.options[2].selected
    /\ calc_scene.options[1].effects =
          <<[name |-> "gold", value |-> 2], [name |-> "gold", value |-> -1]>>
    /\ calc_scene.options[2].effects = <<[name |-> "gold", value |-> 2]>>
    /\ calc_result.effects = [n \in {"gold"} |-> 1]

\* the sum of f over a set of positions of a list, each position once
RECURSIVE SumOver(_, _)
SumOver(f, positions) ==
    IF positions = {} THEN 0
    ELSE LET i == CHOOSE x \in positions : TRUE
         IN  f[i] + SumOver(f, positions \ {i})

\* C11: compare_with_expected returns the sum over all entries e of the
\* expected list of max(0, 100 - 10 * |accumulated[e.name] - e.value|) when
\* e.name is a key of accumulated, and of 0 when it is not.
C11_ScoreIsSumOfContributions ==
    score_result.done =>
        LET acc == score_input.calculated
            exp == score_input.expected
            contribution ==
                [i \in DOMAIN exp |->
                    IF exp[i].name \in DOMAIN acc
                    THEN LET d == acc[exp[i].name] - exp[i].value
                             diff == IF d >= 0 THEN d ELSE 0 - d
                         IN  IF 100 - 10 * diff > 0 THEN 100 - 10 * diff ELSE 0
                    ELSE 0]
        IN  score_result.score = SumOver(contribution, DOMAIN exp)

\* C11 witness: two expected entries of one name were both counted, 70 for a
\* difference of 3 and 20 for a difference of 8
C11_Witness ==
    /\ score_result.done
    /\ score_input.calculated = [n \in {"gold"} |-> 0]
    /\ score_input.expected =
          <<[name |-> "gold", value |-> 3], [name |-> "gold", value |-> -8]>>
    /\ score_result.score = 90

\* a scene in which no option is selected
NoneSelected(scene) ==
    \A i \in 1..Len(scene.options) : ~scene.options[i].selected

C13_NothingSelectedGivesEmpty ==
    (calc_result.done /\ NoneSelected(calc_scene))
        => calc_result.effects = EmptyDict

\* C13 witness: a scene of two unselected options that carry effects was
\* accumulated
C13_Witness ==
    /\ calc_result.done
    /\ Len(calc_scene.options) = 2
    /\ NoneSelected(calc_scene)
    /\ Len(calc_scene.options[1].effects) = 2
    /\ Len(calc_scene.options[2].effects) = 1
    /\ DOMAIN calc_result.effects = {}

\* accumulated holds every expected entry's name with exactly its value
ExactMatch(acc, exp) ==
    \A i \in DOMAIN exp :
        exp[i].name \in DOMAIN acc /\ acc[exp[i].name] = exp[i].value

\* C14: when accumulated holds every expected entry's name with exactly the
\* expected value, compare_with_expected returns 100 per expected entry.
C14_ExactMatchScoresHundredEach ==
    (score_result.done /\ ExactMatch(score_input.calculated, score_input.expected))
        => score_result.score = 100 * Len(score_input.expected)

\* C14 witness: two expected entries, both matched exactly, scored 200
C14_Witness ==
    /\ score_result.done
    /\ Len(score_input.expected) = 2
    /\ score_input.expected[1].name # score_input.expected[2].name
    /\ ExactMatch(score_input.calculated, score_input.expected)
    /\ score_result.score = 200

RECURSIVE Flatten(_)
\* the records of a list of days, in order
Flatten(lists) ==
    IF lists = <<>> THEN <<>> ELSE Head(lists) \o Flatten(Tail(lists))

\* C15: load_game right after a successful save_game returns a record whose
\* current_day, current_scene, global_stats and day_results equal the state's
\* current_day_index, current_scene_index, global_stats and day_results.
C15_SaveLoadRoundTrip ==
    [][ (last_call = "save_game" /\ raised = "none" /\ last_call' = "load_game")
        => ( /\ raised' = "none"
             /\ DOMAIN returned' =
                   {"current_day", "current_scene", "global_stats", "day_results"}
             /\ returned'.current_day = current_day_index
             /\ returned'.current_scene = current_scene_index
             /\ returned'.global_stats = global_stats
             /\ returned'.day_results = day_results ) ]_vars

\* C15 witness: a snapshot holding a day of two records, saved mid-scene on
\* the next day, was loaded back
C15_Witness ==
    /\ last_call = "load_game"
    /\ raised = "none"
    /\ current_day_index = 1
    /\ current_scene_index = 1
    /\ returned.current_day = 1
    /\ returned.current_scene = 1
    /\ Len(returned.day_results) = 1
    /\ Len(returned.day_results[1]) = 2
    /\ returned.day_results[1][1].selected_options = <<"opt_a", "opt_b">>
    /\ returned.day_results[1][1].score = 50

\* C16 as stated: in every state a successful save writes a snapshot that
\* contains every scene result record produced so far, those of the day in
\* progress or awaiting next_day included.
C16_SnapshotHoldsAllRecords ==
    [][ (last_call' = "save_game" /\ raised' = "none")
        => Flatten(yaml_safe_load(save_file'.document).day_results)
              = Flatten(day_results) \o current_day_results ]_vars

\* the Option object at a position of the loaded content
OptionAt(l, p) == l.options[l.days[p[1]].scenes[p[2]].options[p[3]]]

\* C17: a click on the button of one scene's Option flips the selected flag
\* of the Option at that position and leaves the flag of the Option at every
\* other position, and of every Option of the catalog, as it was.
C17_ToggleTouchesOneInstance ==
    [][ last_call' = "OptionButton.on_mouse_press"
        => \E p \in OptionPositions :
              /\ OptionAt(loader', p).selected = ~OptionAt(loader, p).selected
              /\ \A q \in OptionPositions \ {p} :
                    OptionAt(loader', q).selected = OptionAt(loader, q).selected
              /\ \A n \in DOMAIN loader.options_cache :
                    loader'.options[loader.options_cache[n]].selected
                        = loader.options[loader.options_cache[n]].selected ]_vars

\* C17 witness: after a click, an Option is selected while an Option of the
\* same catalog name in the same scene and one in another scene are not
C17_Witness ==
    /\ last_call = "OptionButton.on_mouse_press"
    /\ \E p, q, r \in OptionPositions :
          /\ p # q /\ p[1] = q[1] /\ p[2] = q[2]
          /\ <<p[1], p[2]>> # <<r[1], r[2]>>
          /\ OptionAt(loader, p).name = OptionAt(loader, q).name
          /\ OptionAt(loader, p).name = OptionAt(loader, r).name
          /\ OptionAt(loader, p).selected
          /\ ~OptionAt(loader, q).selected
          /\ ~OptionAt(loader, r).selected

\* the Effect objects an Option's list holds
EffectIds(l, id) == { l.options[id].effects[i] : i \in DOMAIN l.options[id].effects }

\* C18 as stated: no Effect object is held by two Options, be they Options
\* of scenes or of the catalog.
C18_NoEffectShared ==
    \A i, j \in DOMAIN loader.options :
        i # j => EffectIds(loader, i) \cap EffectIds(loader, j) = {}

\* the descriptor a scene entry stands for
Content(scene_data) ==
    IF "file" \in DOMAIN scene_data THEN SceneFiles[scene_data.file]
    ELSE scene_data

\* days.yaml with every {file: name} entry replaced by the file's descriptor
Inlined(days_data) ==
    [d \in DOMAIN days_data |->
        [text |-> days_data[d].text,
         scenes |-> [s \in DOMAIN days_data[d].scenes |->
                        Content(days_data[d].scenes[s])]]]

CatalogNames == { OptionsYaml[i].name : i \in DOMAIN OptionsYaml }

IsCatalogName(n) == n \in CatalogNames

WellFormed(descriptor) == RequiredKeys \subseteq DOMAIN descriptor

\* the scene positions of a days.yaml, 1-based
ScenePositions(days_data) ==
    UNION { { <<d, s>> : s \in DOMAIN days_data[d].scenes } : d \in DOMAIN days_data }

\* C20: load_days raises nothing when every descriptor has its required
\* keys, whatever names it references; the options of each loaded scene are
\* the references that are catalog names, in reference order, each an Option
\* object of its own, distinct from the catalog's, with the catalog entry's
\* name, text and effects and selected = FALSE.
C20_UnknownReferencesSkipped ==
    [][ ( /\ last_call' = "load_days"
          /\ \A p \in ScenePositions(loader'.days_data) :
                WellFormed(Content(loader'.days_data[p[1]].scenes[p[2]])) )
        => /\ raised' = "none"
           /\ DOMAIN loader'.days = DOMAIN loader'.days_data
           /\ \A p \in ScenePositions(loader'.days_data) :
                LET refs == Content(loader'.days_data[p[1]].scenes[p[2]]).options
                    known == SelectSeq(refs, IsCatalogName)
                    opts == loader'.days[p[1]].scenes[p[2]].options
                IN  /\ Len(opts) = Len(known)
                    /\ \A k \in DOMAIN opts :
                          LET template == loader.options[loader.options_cache[known[k]]]
                          IN  /\ loader'.options[opts[k]].name = known[k]
                              /\ loader'.options[opts[k]].text = template.text
                              /\ OptionValue(loader', opts[k]).effects
                                    = OptionValue(loader, loader.options_cache[known[k]]).effects
                              /\ loader'.options[opts[k]].selected = FALSE
                              /\ opts[k] \notin DOMAIN loader.options
           /\ \A p, q \in OptionPositions' :
                p # q => loader'.days[p[1]].scenes[p[2]].options[p[3]]
                            # loader'.days[q[1]].scenes[q[2]].options[q[3]]
       ]_vars

\* C20 witness: a scene referencing opt_a, a name the catalog does not hold,
\* and opt_b was loaded with the two options opt_a and opt_b
C20_Witness ==
    /\ last_call = "load_days"
    /\ raised = "none"
    /\ \E p \in ScenePositions(loader.days_data) :
          /\ Content(loader.days_data[p[1]].scenes[p[2]]).options
                = <<"opt_a", "opt_ghost", "opt_b">>
          /\ Len(loader.days[p[1]].scenes[p[2]].options) = 2
          /\ OptionAt(loader, <<p[1], p[2], 1>>).name = "opt_a"
          /\ OptionAt(loader, <<p[1], p[2], 2>>).name = "opt_b"

\* the effects options.yaml gives its options
OptionEffects(options_data) ==
    UNION { { options_data[i].effects[j] : j \in DOMAIN options_data[i].effects } :
            i \in DOMAIN options_data }

\* a record of the content lacks a required field: a scene its fg_text, an
\* effect its value
LacksRequiredField(options_data, days_data) ==
    \/ \E e \in OptionEffects(options_data) : "value" \notin DOMAIN e
    \/ \E p \in ScenePositions(days_data) :
          "fg_text" \notin DOMAIN Content(days_data[p[1]].scenes[p[2]])

\* C21: constructing the game from content in which a scene has no fg_text
\* or an effect has no value raises an error, and after any error of the
\* constructor no game exists (no days, no view, the cursor and the results
\* untouched); a game that was constructed holds every option of
\* options.yaml and every day and scene of days.yaml.
C21_MalformedContentIsFatal ==
    [][ last_call' = "init"
        => /\ LacksRequiredField(loader'.options_data, loader'.days_data)
              => raised' \in {"KeyError", "TypeError"}
           /\ raised' # "none"
              => /\ loader'.phase = "failed"
                 /\ days' = <<>>
                 /\ current_view' = NoView
                 /\ UNCHANGED <<current_day_index, current_scene_index,
                                day_results, current_day_results>>
           /\ raised' = "none"
              => /\ DOMAIN loader'.options_cache
                        = { loader'.options_data[i].name :
                               i \in DOMAIN loader'.options_data }
                 /\ DOMAIN days' = DOMAIN loader'.days_data
                 /\ \A d \in DOMAIN days' :
                       DOMAIN days'[d].scenes = DOMAIN loader'.days_data[d].scenes
       ]_vars

\* C21 witness: a days.yaml whose second scene has no fg_text was given; the
\* constructor raised KeyError and there is no game
C21_Witness ==
    /\ last_call = "init"
    /\ raised = "KeyError"
    /\ Len(loader.days_data) = 1
    /\ Len(loader.days_data[1].scenes) = 2
    /\ "fg_text" \in DOMAIN Content(loader.days_data[1].scenes[1])
    /\ "fg_text" \notin DOMAIN Content(loader.days_data[1].scenes[2])
    /\ loader.options_cache # EmptyDict
    /\ days = <<>>
    /\ current_view = NoView

\* content with a first day that has a scene
NonEmptyContent(days_data) == days_data # <<>> /\ days_data[1].scenes # <<>>

\* C23: when the constructor returns, the cursor is (0, 0), day_results and
\* the in-progress list are empty and the view shows days[0].scenes[0], the
\* scene of the first entry of days.yaml; it returns for every content with
\* a non-empty first day and no record lacking a field.
C23_StartsInFirstScene ==
    [][ last_call' = "init"
        => /\ raised' = "none"
              => /\ current_day_index' = 0
                 /\ current_scene_index' = 0
                 /\ day_results' = <<>>
                 /\ current_day_results' = <<>>
                 /\ current_view' = SceneView(0, 0)
                 /\ SceneExists(days', 0, 0)
                 /\ days'[1].scenes[1].fg_text
                        = Content(loader'.days_data[1].scenes[1]).fg_text
                 /\ \A k \in DOMAIN days'[1].scenes[1].options :
                        ~days'[1].scenes[1].options[k].selected
           /\ ( /\ NonEmptyContent(loader'.days_data)
                /\ ~LacksRequiredField(loader'.options_data, loader'.days_data) )
              => raised' = "none"
       ]_vars

\* C23 witness: a game constructed from two days, the second one empty
C23_Witness ==
    /\ last_call = "init"
    /\ raised = "none"
    /\ loader.phase = "running"
    /\ Len(days) = 2
    /\ Len(days[1].scenes) = 2
    /\ days[2].scenes = <<>>
    /\ current_view = SceneView(0, 0)

\* C22: a call of save_game, returning or raising, leaves the cursor,
\* day_results, the in-progress list, the content and the view as they
\* were (global_stats is written nowhere); when it raises, save.yaml is as
\* it was too.
C22_SaveLeavesStateAlone ==
    [][ last_call' = "save_game"
        => /\ UNCHANGED <<current_day_index, current_scene_index, day_results,
                          current_day_results, current_view, days>>
           /\ raised' # "none" => UNCHANGED save_file ]_vars

\* C22 witness: a save failed while two records were in progress and an
\* earlier snapshot was on file
C22_Witness ==
    /\ last_call = "save_game"
    /\ raised = "OSError"
    /\ Len(current_day_results) = 2
    /\ current_view = DaySummaryView
    /\ save_file.exists

IsSelected(option) == option.selected

\* C24: a submit that returns appends one record to the in-progress list;
\* its scene_index is the scene index before the call, its selected_options
\* are the names of the selected options of the scene in order, its effects
\* are calculate_scene_effects(scene) and its score is
\* compare_with_expected(effects, scene.outcome.expected), the scene being
\* the one at the cursor before the call.
C24_RecordOfSubmit ==
    [][ (last_call' = "on_submit" /\ raised' = "none")
        => LET scene == get_current_scene
               chosen == SelectSeq(scene.options, IsSelected)
               record == current_day_results'[Len(current_day_results')]
           IN  /\ current_day_results' = Append(current_day_results, record)
               /\ DOMAIN record
                     = {"scene_index", "selected_options", "effects", "score"}
               /\ record.scene_index = current_scene_index
               /\ record.selected_options
                     = [k \in DOMAIN chosen |-> chosen[k].name]
               /\ record.effects = calculate_scene_effects(scene)
               /\ record.score
                     = compare_with_expected(record.effects, scene.outcome.expected)
       ]_vars

\* C24 witness: the second scene of a day was submitted with its option
\* selected, giving gold 5 and fame 1 against an expected gold of 10
C24_Witness ==
    /\ last_call = "on_submit"
    /\ raised = "none"
    /\ Len(current_day_results) = 2
    /\ current_day_results[2].scene_index = 1
    /\ current_day_results[2].selected_options = <<"opt_b">>
    /\ current_day_results[2].effects = [gold |-> 5, fame |-> 1]
    /\ current_day_results[2].score = 50

\* the scene at 1-based position (d, s) has a record: on_submit returned for it
WasSubmitted(d, s) == \E i \in DOMAIN submitted : submitted[i] = <<d - 1, s - 1>>

\* C25: the calculated_effects of a scene are empty as long as the scene was
\* not submitted; a returning submit of the scene, which had not been
\* submitted before, sets them to calculate_scene_effects(scene); no other
\* step (a toggle, a submit of another scene, a raising submit, next_day,
\* save_game, load_game) changes them.
C25_CalculatedEffectsSetOnce ==
    [][ \A d \in DOMAIN days : \A s \in DOMAIN days[d].scenes :
          LET submitting == /\ last_call' = "on_submit"
                            /\ raised' = "none"
                            /\ current_day_index = d - 1
                            /\ current_scene_index = s - 1
          IN  /\ ~WasSubmitted(d, s)
                    => days[d].scenes[s].calculated_effects = EmptyDict
              /\ submitting
                    => /\ ~WasSubmitted(d, s)
                       /\ days'[d].scenes[s].calculated_effects
                             = calculate_scene_effects(days[d].scenes[s])
              /\ ~submitting
                    => days'[d].scenes[s].calculated_effects
                          = days[d].scenes[s].calculated_effects ]_vars

\* C25 witness: the two scenes of day 0 were submitted, then came next_day,
\* a toggle in the scene of day 1 and a save; the submitted scenes keep
\* their effects and the scene of day 1, its option selected, has none
C25_Witness ==
    /\ last_call = "save_game"
    /\ current_day_index = 1
    /\ days[1].scenes[1].calculated_effects = [gold |-> 10]
    /\ WasSubmitted(1, 2)
    /\ days[1].scenes[2].calculated_effects = [gold |-> 5, fame |-> 1]
    /\ ~WasSubmitted(2, 1)
    /\ days[2].scenes[1].options[1].selected
    /\ days[2].scenes[1].calculated_effects = EmptyDict

\* C26 as stated: a submit directly after a returning submit appends a
\* second record for the same scene, and the scene index is advanced by one
\* only by the two calls together.
C26_Original ==
    [][ (last_call = "on_submit" /\ raised = "none" /\ last_call' = "on_submit")
        => /\ Len(current_day_results') = Len(current_day_results) + 1
           /\ current_day_results'[Len(current_day_results')].scene_index
                 = current_day_results[Len(current_day_results)].scene_index
           /\ current_scene_index' = current_scene_index ]_vars

\* C26, amended: the first submit has advanced the cursor, so a submit
\* directly after a returning submit acts on the next scene: if the day has
\* one, it appends a record with the next scene_index and advances the scene
\* index once more; if not (the day summary is shown), it raises IndexError
\* and changes neither the list nor the cursor.
C26_SecondSubmitTakesNextScene ==
    [][ (last_call = "on_submit" /\ raised = "none" /\ last_call' = "on_submit")
        => LET previous == current_day_results[Len(current_day_results)]
           IN  /\ current_scene_index = previous.scene_index + 1
               /\ IF HasScene(current_day_index, current_scene_index)
                  THEN /\ raised' = "none"
                       /\ Len(current_day_results') = Len(current_day_results) + 1
                       /\ current_day_results'[Len(current_day_results')].scene_index
                             = previous.scene_index + 1
                       /\ current_scene_index' = previous.scene_index + 2
                  ELSE /\ raised' = "IndexError"
                       /\ UNCHANGED <<current_day_results, current_scene_index,
                                      current_day_index, day_results, current_view>>
       ]_vars

\* C26 witness: two submits in a row in a day of two scenes, nothing
\* selected: two records, for scene 0 and scene 1, and the scene index is 2
C26_Witness ==
    /\ last_call = "on_submit"
    /\ raised = "none"
    /\ submitted = << <<0, 0>>, <<0, 1>> >>
    /\ Len(current_day_results) = 2
    /\ current_day_results[1].scene_index = 0
    /\ current_day_results[2].scene_index = 1
    /\ current_day_results[1].selected_options = <<>>
    /\ current_day_results[2].selected_options = <<>>
    /\ current_scene_index = 2

\* C27: in SpecUI on_submit is called only while a scene view is current,
\* and that view shows the scene at the cursor; next_day and save_game are
\* called only while the day-summary view is current; while the
\* game-complete view is current a press calls nothing and changes nothing;
\* a press that toggles an option changes neither the cursor, the results
\* nor the view.
C27_CommandsGatedByView ==
    [][ /\ last_call' = "on_submit"
           => /\ current_view = SceneView(current_day_index, current_scene_index)
              /\ HasScene(current_day_index, current_scene_index)
        /\ last_call' \in {"next_day", "save_game"}
           => current_view = DaySummaryView
        /\ current_view = GameCompleteView
           => /\ last_call' = "on_mouse_press"
              /\ UNCHANGED <<days, current_day_index, current_scene_index,
                             day_results, current_day_results, current_view,
                             save_file>>
        /\ last_call' = "toggle_option"
           => UNCHANGED <<current_day_index, current_scene_index, day_results,
                          current_day_results, current_view, submitted>> ]_vars

\* C27 witness: the game-complete view is current after two days were
\* played, and the last press called nothing
C27_Witness ==
    /\ current_view = GameCompleteView
    /\ last_call = "on_mouse_press"
    /\ Len(day_results) = 2
    /\ Len(submitted) = 3

\* C28 as stated: the cursor in a snapshot written through the UI names an
\* existing scene.
C28_SnapshotCursorInRange ==
    [][ (last_call' = "save_game" /\ raised' = "none")
        => LET snapshot == yaml_safe_load(save_file'.document)
           IN  /\ 0 <= snapshot.current_day
               /\ 0 <= snapshot.current_scene
               /\ HasScene(snapshot.current_day, snapshot.current_scene) ]_vars

C30_ResultsFollowCursor ==
    /\ Len(current_day_results) = current_scene_index
    /\ \A k \in 1..Len(current_day_results) :
          current_day_results[k].scene_index = k - 1

\* C30 witness: two scenes of the second day are submitted
C30_Witness ==
    /\ current_day_index = 1
    /\ Len(current_day_results) = 2
    /\ current_scene_index = 2
    /\ last_call = "on_submit"

\* every day of the content has a scene
EveryDayHasScene == \A d \in 1..Len(days) : Len(days[d].scenes) >= 1

RECURSIVE ScenesInOrder(_, _)
\* the (day, scene) pairs of days d.. of ds, in playing order
ScenesInOrder(ds, d) ==
    IF d >= Len(ds) THEN <<>>
    ELSE [s \in 1..Len(ds[d + 1].scenes) |-> <<d, s - 1>>]
             \o ScenesInOrder(ds, d + 1)

\* C31 as stated: if every day has a scene, a fair player's game reaches the
\* game-complete view, with one submit per scene, in order, and one
\* next_day per day.
C31_EventuallyComplete ==
    EveryDayHasScene
        => <>(/\ current_view = GameCompleteView
              /\ submitted = ScenesInOrder(days, 0)
              /\ Len(day_results) = Len(days))

====
